---- MODULE Spec2Model ----
(***************************************************************************)
(* Model of the retrieval core of samples/REST-API-Examples/               *)
(* rag-embeddings-examples.py: cosine_similarity, find_similar_documents   *)
(* and the context assembly of query_with_rag.                             *)
(*                                                                         *)
(* Numbers.  The vectors' components are integer-valued floats; products   *)
(* and sums of them are exact.  The results of math.sqrt, of the product   *)
(* of the magnitudes and of the final division are inexact: they are kept  *)
(* in fixed point, Scale units per 1.0, and every one of these operations  *)
(* rounds its exact result to the nearest unit, as the float operation     *)
(* rounds to the nearest float.                                            *)
(*                                                                         *)
(* Strings are sequences of one-character strings.                         *)
(*                                                                         *)
(* The last section models make_request, login and get_current_user of     *)
(* samples/REST-API-Examples/python-examples.py and the global JWT_TOKEN;  *)
(* there the tokens and header values are strings.                         *)
(***************************************************************************)
EXTENDS Integers, Sequences, FiniteSets, TLC

\* ------------------------------------------------------------------------
\* Bounds of the model
\* ------------------------------------------------------------------------
\* the longest list of documents, and of document vectors, a caller passes
MaxDocs == 3

\* fixed-point units per 1.0
Scale == 1000

\* components and lengths of the vectors of a retrieval
Comp == {0, 1}

Dims == {1, 2}

\* every vector an embedding call can return, or a caller can pass in
Vectors == UNION {[1..d -> Comp] : d \in Dims}

\* components and lengths of the vectors cosine_similarity is called with
\* on its own
SimComp == (-2)..2

SimDims == 0..3

SimVectors == UNION {[1..d -> SimComp] : d \in SimDims}

\* the values of top_k a caller passes
TopKs == (-1)..(MaxDocs + 1)

\* the i-th document a caller has: {"title": ..., "content": ...}, titles and
\* contents of different lengths
Doc(i) ==
    [title |-> [j \in 1..i |-> "t"], content |-> [j \in 1..((i % 2) + 1) |-> "c"]]

\* the document lists a caller passes: its first n documents
DocLists == {[i \in 1..n |-> Doc(i)] : n \in 0..MaxDocs}

SeqsUpTo(S, n) == UNION {[1..m -> S] : m \in 0..n}

\* ------------------------------------------------------------------------
\* Float arithmetic in fixed point
\* ------------------------------------------------------------------------
Min(x, y) == IF x <= y THEN x ELSE y

Max(x, y) == IF x >= y THEN x ELSE y

\* n / d for d > 0, rounded to the nearest integer (halves away from zero)
RoundDiv(n, d) ==
    IF n >= 0 THEN (2 * n + d) \div (2 * d)
    ELSE -((2 * (-n) + d) \div (2 * d))

RECURSIVE ISqrtIn(_, _, _)
\* the largest r in lo..hi with r * r <= n
ISqrtIn(n, lo, hi) ==
    IF lo >= hi THEN lo
    ELSE LET mid == (lo + hi + 1) \div 2
         IN  IF mid * mid <= n THEN ISqrtIn(n, mid, hi)
             ELSE ISqrtIn(n, lo, mid - 1)

\* 46340 * 46340 is the largest square the model's integers hold
ISqrt(n) == ISqrtIn(n, 0, Min(n, 46340))

\* math.sqrt(x) of an exact integer x, in units of 1/Scale, rounded to nearest
sqrt(x) == (ISqrt(4 * x * Scale * Scale) + 1) \div 2

\* a * b of two fixed-point values, rounded to nearest
FMul(a, b) == RoundDiv(a * b, Scale)

\* the float division n / d of an exact integer n by a fixed-point d:
\* ZeroDivisionError when d is 0
FDiv(n, d) ==
    IF d = 0 THEN [err |-> "ZeroDivisionError", val |-> 0]
    ELSE [err |-> "none", val |-> RoundDiv(n * Scale * Scale, d)]

\* ------------------------------------------------------------------------
\* Python built-ins
\* ------------------------------------------------------------------------
RECURSIVE SumSeq(_)
\* sum(s)
SumSeq(s) == IF s = <<>> THEN 0 ELSE s[1] + SumSeq(Tail(s))

\* zip(a, b): stops at the end of the shorter one
Zip(a, b) == [i \in 1..Min(Len(a), Len(b)) |-> <<a[i], b[i]>>]

\* a slip: the slice is forgotten, the whole list returned
SliceToAll(s, k) == s

\* a slip: s[len(s) - k:] for s[:k], the last k for the first k
SliceLast(s, k) ==
    IF k >= 0 THEN SubSeq(s, Len(s) - Min(k, Len(s)) + 1, Len(s))
    ELSE SubSeq(s, 1, Max(Len(s) + k, 0))

\* s[:k], also for a negative k (which counts from the end)
SliceTo(s, k) ==
    IF k >= 0 THEN SubSeq(s, 1, Min(k, Len(s)))
    ELSE SubSeq(s, 1, Max(Len(s) + k, 0))

\* a slip: reverse=True is forgotten, the sort ascends
InsertAsc(s, x) ==
    LET before == {j \in 1..Len(s) : s[j][2] <= x[2]}
        p == IF before = {} THEN 0 ELSE CHOOSE j \in before : \A h \in before : h <= j
    IN  SubSeq(s, 1, p) \o <<x>> \o SubSeq(s, p + 1, Len(s))

\* a slip: an ascending sort that is then reversed, which puts x before the
\* elements of equal key
InsertDescTiesFirst(s, x) ==
    LET before == {j \in 1..Len(s) : s[j][2] > x[2]}
        p == IF before = {} THEN 0 ELSE CHOOSE j \in before : \A h \in before : h <= j
    IN  SubSeq(s, 1, p) \o <<x>> \o SubSeq(s, p + 1, Len(s))

\* where list.sort puts x into the sorted list s (key x[2], reverse=True):
\* after every element whose key is not smaller, so that equal keys keep
\* their order
InsertDesc(s, x) ==
    LET before == {j \in 1..Len(s) : s[j][2] >= x[2]}
        p == IF before = {} THEN 0 ELSE CHOOSE j \in before : \A h \in before : h <= j
    IN  SubSeq(s, 1, p) \o <<x>> \o SubSeq(s, p + 1, Len(s))

RECURSIVE SortDesc(_)
\* s.sort(key=lambda x: x[1], reverse=True): a stable sort
SortDesc(s) ==
    IF s = <<>> THEN <<>>
    ELSE InsertDesc(SortDesc(SubSeq(s, 1, Len(s) - 1)), s[Len(s)])

\* ------------------------------------------------------------------------
\* cosine_similarity
\* ------------------------------------------------------------------------
\* a slip: "and" for "or" in the test for a zero magnitude
cosine_similarity_and(a, b) ==
    IF Len(a) # Len(b) THEN [err |-> "ValueError", val |-> 0]
    ELSE LET zipped == Zip(a, b)
             dot_product == SumSeq([i \in 1..Len(zipped) |-> zipped[i][1] * zipped[i][2]])
             magnitude_a == sqrt(SumSeq([i \in 1..Len(a) |-> a[i] * a[i]]))
             magnitude_b == sqrt(SumSeq([i \in 1..Len(b) |-> b[i] * b[i]]))
         IN  IF magnitude_a = 0 /\ magnitude_b = 0 THEN [err |-> "none", val |-> 0]
             ELSE FDiv(dot_product, FMul(magnitude_a, magnitude_b))

\* a slip: magnitude_a twice in the denominator
cosine_similarity_aa(a, b) ==
    IF Len(a) # Len(b) THEN [err |-> "ValueError", val |-> 0]
    ELSE LET zipped == Zip(a, b)
             dot_product == SumSeq([i \in 1..Len(zipped) |-> zipped[i][1] * zipped[i][2]])
             magnitude_a == sqrt(SumSeq([i \in 1..Len(a) |-> a[i] * a[i]]))
             magnitude_b == sqrt(SumSeq([i \in 1..Len(b) |-> b[i] * b[i]]))
         IN  IF magnitude_a = 0 \/ magnitude_b = 0 THEN [err |-> "none", val |-> 0]
             ELSE FDiv(dot_product, FMul(magnitude_a, magnitude_a))

\* lines 56-68
cosine_similarity(vec_a, vec_b) ==
    IF Len(vec_a) # Len(vec_b) THEN [err |-> "ValueError", val |-> 0]
    ELSE LET zipped == Zip(vec_a, vec_b)
             dot_product == SumSeq([i \in 1..Len(zipped) |-> zipped[i][1] * zipped[i][2]])
             magnitude_a == sqrt(SumSeq([i \in 1..Len(vec_a) |-> vec_a[i] * vec_a[i]]))
             magnitude_b == sqrt(SumSeq([i \in 1..Len(vec_b) |-> vec_b[i] * vec_b[i]]))
         IN  IF magnitude_a = 0 \/ magnitude_b = 0 THEN [err |-> "none", val |-> 0]
             ELSE FDiv(dot_product, FMul(magnitude_a, magnitude_b))

\* ------------------------------------------------------------------------
\* query_with_rag, lines 100-104: the context
\* ------------------------------------------------------------------------
\* f"[{doc['title']}]\n{doc['content']}"
Block(doc) == <<"[">> \o doc.title \o <<"]", "\n">> \o doc.content

RECURSIVE Join(_, _)
\* sep.join(parts)
Join(sep, parts) ==
    IF parts = <<>> THEN <<>>
    ELSE IF Len(parts) = 1 THEN parts[1]
    ELSE parts[1] \o sep \o Join(sep, Tail(parts))

\* a slip: "\n".join for "\n\n".join
BuildContextOneNewline(similar_docs) ==
    Join(<<"\n">>, [i \in 1..Len(similar_docs) |-> Block(similar_docs[i][1])])

\* "\n\n".join([... for doc, similarity in similar_docs])
BuildContext(similar_docs) ==
    Join(<<"\n", "\n">>, [i \in 1..Len(similar_docs) |-> Block(similar_docs[i][1])])

\* the answers of the chat completion
Answers == {<<"a">>, <<"n", "o">>}

\* ------------------------------------------------------------------------
\* State
\* ------------------------------------------------------------------------
VARIABLES
    op,                   \* the function called: "find" (find_similar_documents),
                          \* "rag" (query_with_rag) or "sim" (cosine_similarity)
    pc,                   \* position in the call
    documents,            \* argument: the documents
    document_embeddings,  \* argument: their vectors
    top_k,                \* argument: the result count
    query_embedding,      \* find_similar_documents: the vector of the query
    similarities,         \* find_similar_documents: the (doc, similarity) pairs
    result,               \* what find_similar_documents returned (similar_docs)
    context,              \* query_with_rag: the context
    answer,               \* what query_with_rag returned
    error,                \* the exception that left the call, "none" if none
    calls,                \* the HTTP requests issued, in order
    vec_a, vec_b,         \* cosine_similarity called on its own: the arguments
    sim_ab, sim_ba,       \* its outcomes for (vec_a, vec_b) and (vec_b, vec_a)
    JWT_TOKEN,            \* python-examples.py: the global JWT_TOKEN
    nsent,                \* python-examples.py: the number of HTTP requests issued
    last_sent,            \* python-examples.py: the last HTTP request issued
    last_call             \* python-examples.py: the last function called, with
                          \* the headers passed to it and its outcome

vars == <<op, pc, documents, document_embeddings, top_k, query_embedding,
          similarities, result, context, answer, error, calls,
          vec_a, vec_b, sim_ab, sim_ba, JWT_TOKEN, nsent, last_sent, last_call>>

args == <<op, documents, document_embeddings, top_k>>

simvars == <<vec_a, vec_b, sim_ab, sim_ba>>

clientvars == <<JWT_TOKEN, nsent, last_sent, last_call>>

\* no request issued yet
NoRequest == [method |-> "", endpoint |-> "", headers |-> <<>>]

\* no function of python-examples.py called yet
NoCall == [fn |-> "", headers |-> <<>>, outcome |-> ""]

\* python-examples.py is not running
ClientIdle ==
    /\ JWT_TOKEN = ""
    /\ nsent = 0
    /\ last_sent = NoRequest
    /\ last_call = NoCall

\* not called yet
NotCalled == [err |-> "notcalled", val |-> 0]

InitCall(o) ==
    /\ op = o
    /\ pc = "embed"
    /\ documents \in DocLists
    /\ document_embeddings \in SeqsUpTo(Vectors, MaxDocs)
    /\ top_k \in TopKs
    /\ query_embedding = <<>>
    /\ similarities = <<>>
    /\ result = <<>>
    /\ context = <<>>
    /\ answer = <<>>
    /\ error = "none"
    /\ calls = <<>>
    /\ vec_a = <<>>
    /\ vec_b = <<>>
    /\ sim_ab = NotCalled
    /\ sim_ba = NotCalled
    /\ ClientIdle

\* a call of find_similar_documents
Init == InitCall("find")

\* line 78 (24-38), create_embedding returns a vector
EmbedOk ==
    /\ pc = "embed"
    /\ \E v \in Vectors : query_embedding' = v
    /\ calls' = Append(calls, "embeddings")
    /\ pc' = "loop"
    /\ UNCHANGED <<clientvars, args, similarities, result, context, answer, error, simvars>>

\* a slip: a failed embedding request is issued once more
EmbedFailRetry ==
    /\ pc = "embed"
    /\ calls' = Append(calls, "embeddings")
    /\ IF calls = <<>>
       THEN UNCHANGED <<pc, error>>
       ELSE pc' = "failed" /\ error' = "RequestException"
    /\ UNCHANGED <<clientvars, op, documents, document_embeddings, top_k, query_embedding,
                   similarities, result, context, answer, vec_a, vec_b, sim_ab, sim_ba>>

\* line 78 (24-38), create_embedding raises (raise_for_status, or the transport)
EmbedFail ==
    /\ pc = "embed"
    /\ calls' = Append(calls, "embeddings")
    /\ pc' = "failed"
    /\ error' = "RequestException"
    /\ UNCHANGED <<clientvars, args, query_embedding, similarities, result, context, answer, simvars>>

\* lines 82-84, one iteration of the loop over zip(documents, document_embeddings)
LoopStep ==
    /\ pc = "loop"
    /\ Len(similarities) < Len(Zip(documents, document_embeddings))
    /\ LET pair == Zip(documents, document_embeddings)[Len(similarities) + 1]
           similarity == cosine_similarity(query_embedding, pair[2])
       IN  IF similarity.err # "none"
           THEN /\ pc' = "failed"
                /\ error' = similarity.err
                /\ UNCHANGED similarities
           ELSE /\ similarities' = Append(similarities, <<pair[1], similarity.val>>)
                /\ UNCHANGED <<pc, error>>
    /\ UNCHANGED <<clientvars, args, query_embedding, result, context, answer, calls, simvars>>

\* a slip: the documents are sorted along with the scores, in place
SortAndReturnInPlace ==
    /\ pc = "loop"
    /\ Len(similarities) = Len(Zip(documents, document_embeddings))
    /\ similarities' = SortDesc(similarities)
    /\ documents' = [i \in 1..Len(documents) |->
                        IF i <= Len(similarities') THEN similarities'[i][1]
                        ELSE documents[i]]
    /\ result' = SliceTo(similarities', top_k)
    /\ pc' = IF op = "find" THEN "done" ELSE "context"
    /\ UNCHANGED <<clientvars, op, document_embeddings, top_k, query_embedding, context, answer,
                   error, calls, vec_a, vec_b, sim_ab, sim_ba>>

\* lines 87-88, the loop is over: sort and return the first top_k
SortAndReturn ==
    /\ pc = "loop"
    /\ Len(similarities) = Len(Zip(documents, document_embeddings))
    /\ similarities' = SortDesc(similarities)
    /\ result' = SliceTo(similarities', top_k)
    /\ pc' = IF op = "find" THEN "done" ELSE "context"
    /\ UNCHANGED <<clientvars, args, query_embedding, context, answer, error, calls, simvars>>

\* lines 101-104, query_with_rag builds the context
AssembleContext ==
    /\ pc = "context"
    /\ context' = BuildContext(result)
    /\ pc' = "generate"
    /\ UNCHANGED <<clientvars, args, query_embedding, similarities, result, answer, error, calls, simvars>>

\* a slip: the chat completion is requested before the context is built
GenerateOkEarly ==
    /\ pc = "context"
    /\ \E a \in Answers : answer' = a
    /\ calls' = Append(calls, "chat")
    /\ pc' = "done"
    /\ UNCHANGED <<clientvars, op, documents, document_embeddings, top_k, query_embedding,
                   similarities, result, context, error, vec_a, vec_b, sim_ab, sim_ba>>

\* lines 107-130, the chat completion returns an answer
GenerateOk ==
    /\ pc = "generate"
    /\ \E a \in Answers : answer' = a
    /\ calls' = Append(calls, "chat")
    /\ pc' = "done"
    /\ UNCHANGED <<clientvars, args, query_embedding, similarities, result, context, error, simvars>>

\* a slip: the failure of the chat completion is caught and the context
\* returned in place of the answer
GenerateFailFallback ==
    /\ pc = "generate"
    /\ calls' = Append(calls, "chat")
    /\ pc' = "done"
    /\ error' = "RequestException"
    /\ answer' = context
    /\ UNCHANGED <<clientvars, op, documents, document_embeddings, top_k, query_embedding,
                   similarities, result, context, vec_a, vec_b, sim_ab, sim_ba>>

\* lines 107-129, the chat completion raises
GenerateFail ==
    /\ pc = "generate"
    /\ calls' = Append(calls, "chat")
    /\ pc' = "failed"
    /\ error' = "RequestException"
    /\ UNCHANGED <<clientvars, args, query_embedding, similarities, result, context, answer, simvars>>

FindNext == EmbedOk \/ EmbedFail \/ LoopStep \/ SortAndReturn

Next == FindNext

Spec == Init /\ [][Next]_vars

\* a call of query_with_rag
RagInit == InitCall("rag")

RagNext == FindNext \/ AssembleContext \/ GenerateOk \/ GenerateFail

RagSpec == RagInit /\ [][RagNext]_vars

\* ------------------------------------------------------------------------
\* cosine_similarity called on its own, with the arguments in both orders
\* ------------------------------------------------------------------------
SimInit ==
    /\ op = "sim"
    /\ pc = "sim"
    /\ vec_a \in SimVectors
    /\ vec_b \in SimVectors
    /\ sim_ab = NotCalled
    /\ sim_ba = NotCalled
    /\ documents = <<>>
    /\ document_embeddings = <<>>
    /\ top_k = 0
    /\ query_embedding = <<>>
    /\ similarities = <<>>
    /\ result = <<>>
    /\ context = <<>>
    /\ answer = <<>>
    /\ error = "none"
    /\ calls = <<>>
    /\ ClientIdle

CallAB ==
    /\ pc = "sim"
    /\ sim_ab = NotCalled
    /\ sim_ab' = cosine_similarity(vec_a, vec_b)
    /\ UNCHANGED <<clientvars, args, pc, query_embedding, similarities, result, context, answer,
                   error, calls, vec_a, vec_b, sim_ba>>

CallBA ==
    /\ pc = "sim"
    /\ sim_ba = NotCalled
    /\ sim_ba' = cosine_similarity(vec_b, vec_a)
    /\ UNCHANGED <<clientvars, args, pc, query_embedding, similarities, result, context, answer,
                   error, calls, vec_a, vec_b, sim_ab>>

SimNext == CallAB \/ CallBA

SimSpec == SimInit /\ [][SimNext]_vars

\* ------------------------------------------------------------------------
\* Properties of find_similar_documents
\* ------------------------------------------------------------------------
\* find_similar_documents has returned (to its caller, or to query_with_rag)
FindReturned ==
    \/ pc \in {"done", "context", "generate"}
    \/ pc = "failed" /\ Len(calls) = 2

\* the documents and the vectors are as many
Aligned == Len(documents) = Len(document_embeddings)

\* the (document, score) pair of input position i
PairAt(i) ==
    <<documents[i], cosine_similarity(query_embedding, document_embeddings[i]).val>>

\* the positions of the result that hold the document of input position i
\* (the documents of a call are all different)
PosOf(i) == {p \in 1..Len(result) : result[p][1] = documents[i]}

\* C1: for N documents with N vectors and a non-negative k, the retriever
\* returns exactly min(k, N) entries: none when k = 0, all N when k > N, none
\* when N = 0.
C1_ResultLength ==
    (FindReturned /\ Aligned /\ top_k >= 0) =>
        /\ Len(result) = Min(top_k, Len(documents))
        /\ top_k = 0 => result = <<>>
        /\ top_k > Len(documents) => Len(result) = Len(documents)
        /\ Len(documents) = 0 => result = <<>>

\* a call with more than one document and a k above their number has returned
C1_Witness ==
    /\ op = "find" /\ pc = "done" /\ Aligned
    /\ Len(documents) >= 2
    /\ top_k > Len(documents)
    /\ Len(result) = Len(documents)

\* C2: the returned entries are the (documents[i], similarity(query,
\* vectors[i])) pairs of min(k, N) distinct input positions, and no pair left
\* out has a score strictly greater than a returned one.
C2_TopScoring ==
    (FindReturned /\ Aligned /\ top_k >= 0) =>
        /\ Len(result) = Min(top_k, Len(documents))
        /\ \E f \in [1..Len(result) -> 1..Len(documents)] :
              /\ \A p, q \in 1..Len(result) : p # q => f[p] # f[q]
              /\ \A p \in 1..Len(result) : result[p] = PairAt(f[p])
              /\ \A i \in 1..Len(documents) :
                    (\A p \in 1..Len(result) : f[p] # i) =>
                        \A p \in 1..Len(result) : PairAt(i)[2] <= result[p][2]

\* vectors A = [1,0], B = [0,1], C = [1,1], query [1,0], k = 2: [A, C] returned
C2_Witness ==
    /\ op = "find" /\ pc = "done"
    /\ Len(documents) = 3
    /\ query_embedding = <<1, 0>>
    /\ document_embeddings = << <<1, 0>>, <<0, 1>>, <<1, 1>> >>
    /\ top_k = 2
    /\ Len(result) = 2
    /\ result[1][1] = documents[1]
    /\ result[2][1] = documents[3]
    /\ result[1][2] > result[2][2]

\* C3: the returned sequence is sorted non-increasing by score.
C3_SortedDescending ==
    FindReturned =>
        \A p \in 1..(Len(result) - 1) : result[p][2] >= result[p + 1][2]

\* a call has returned entries of different scores in another order than the
\* documents came in
C3_Witness ==
    /\ op = "find" /\ pc = "done"
    /\ Len(result) >= 2
    /\ result[1][2] > result[2][2]
    /\ result[1][1] # documents[1]

\* C4: two candidates of exactly equal score keep their input order: when
\* both are returned the earlier one comes first, and when only one of them
\* is returned it is the earlier one.
C4_StableTies ==
    FindReturned =>
        \A i, j \in 1..Len(Zip(documents, document_embeddings)) :
            (i < j /\ PairAt(i)[2] = PairAt(j)[2] /\ PosOf(j) # {}) =>
                /\ PosOf(i) # {}
                /\ \A p \in PosOf(i), q \in PosOf(j) : p < q

\* of two documents of equal score only the earlier one was returned, after
\* a document that came later than both
C4_Witness ==
    /\ op = "find" /\ pc = "done"
    /\ Len(documents) = 3 /\ Aligned
    /\ PairAt(1)[2] = PairAt(2)[2]
    /\ PairAt(3)[2] > PairAt(1)[2]
    /\ top_k = 2
    /\ result = <<PairAt(3), PairAt(1)>>

\* C5: when the documents and the document vectors differ in number, the
\* retrieval fails; it never returns a result.
C5_MisalignedFails ==
    ~Aligned => ~FindReturned

\* C6: when the length of any document vector differs from the length of the
\* query vector, the whole retrieval fails and returns no entries.
C6_MismatchFails ==
    (pc # "embed" /\ error # "RequestException"
        /\ \E i \in 1..Len(document_embeddings) :
              Len(document_embeddings[i]) # Len(query_embedding)) =>
        /\ ~FindReturned
        /\ result = <<>>

\* C7: a call with a negative k fails and returns no entries.
C7_NegativeKFails ==
    top_k < 0 => (~FindReturned /\ result = <<>>)

\* ------------------------------------------------------------------------
\* Properties of cosine_similarity
\* ------------------------------------------------------------------------
IsZero(v) == \A i \in 1..Len(v) : v[i] = 0

\* C8: for vectors of equal length, of which one is all zeros, similarity
\* returns exactly 0.0 and raises nothing; cosine_similarity never divides
\* by zero.
C8_ZeroVector ==
    /\ sim_ab.err # "ZeroDivisionError"
    /\ sim_ba.err # "ZeroDivisionError"
    /\ (Len(vec_a) = Len(vec_b) /\ (IsZero(vec_a) \/ IsZero(vec_b))) =>
          /\ sim_ab \in {NotCalled, [err |-> "none", val |-> 0]}
          /\ sim_ba \in {NotCalled, [err |-> "none", val |-> 0]}

\* similarity was computed for a zero vector and a vector that is not zero
C8_Witness ==
    /\ Len(vec_a) = Len(vec_b)
    /\ Len(vec_a) >= 2
    /\ IsZero(vec_a)
    /\ ~IsZero(vec_b)
    /\ sim_ab = [err |-> "none", val |-> 0]

\* C9: similarity(a, b) = similarity(b, a) for vectors of equal length, and
\* for vectors of unequal length both orders fail with the same error.
C9_Symmetric ==
    (sim_ab # NotCalled /\ sim_ba # NotCalled) =>
        /\ sim_ab = sim_ba
        /\ Len(vec_a) # Len(vec_b) => sim_ab.err = "ValueError"
        /\ Len(vec_a) = Len(vec_b) => sim_ab.err = "none"

\* both orders were computed for two different vectors of different norms
\* that are not orthogonal
C9_Witness ==
    /\ sim_ab # NotCalled /\ sim_ba # NotCalled
    /\ Len(vec_a) = Len(vec_b)
    /\ vec_a # vec_b
    /\ SumSeq([i \in 1..Len(vec_a) |-> vec_a[i] * vec_a[i]])
         # SumSeq([i \in 1..Len(vec_b) |-> vec_b[i] * vec_b[i]])
    /\ sim_ab.val < 0

\* ------------------------------------------------------------------------
\* Properties of the context
\* ------------------------------------------------------------------------
\* query_with_rag has built the context
ContextBuilt == op = "rag" /\ (pc = "generate" \/ Len(calls) = 2)

\* the length of the block of the p-th candidate: "[", title, "]", "\n", content
BlockLen(p) == Len(result[p][1].title) + Len(result[p][1].content) + 3

RECURSIVE BlockStart(_)
\* the number of characters before the block of the p-th candidate
BlockStart(p) == IF p <= 1 THEN 0 ELSE BlockStart(p - 1) + BlockLen(p - 1) + 2

\* C10: the context holds one block per candidate, "[title]" then a newline
\* then the content, in the order of the candidates, with a blank line between
\* consecutive blocks and nothing else; no candidate gives the empty string;
\* the scores play no part.
C10_ContextBlocks ==
    ContextBuilt =>
        LET n == Len(result)
        IN  /\ n = 0 => context = <<>>
            /\ n > 0 => Len(context) = BlockStart(n) + BlockLen(n)
            /\ \A p \in 1..n :
                  LET doc == result[p][1]
                      s == BlockStart(p)
                      t == Len(doc.title)
                  IN  /\ context[s + 1] = "["
                      /\ SubSeq(context, s + 2, s + 1 + t) = doc.title
                      /\ context[s + t + 2] = "]"
                      /\ context[s + t + 3] = "\n"
                      /\ SubSeq(context, s + t + 4, s + BlockLen(p)) = doc.content
                      /\ p < n => SubSeq(context, s + BlockLen(p) + 1, s + BlockLen(p) + 2)
                                    = <<"\n", "\n">>

\* a context of two blocks, in another order than the documents came in
C10_Witness ==
    /\ ContextBuilt
    /\ Len(result) >= 2
    /\ result[1][1] # documents[1]
    /\ Len(context) > BlockLen(1) + 2

\* ------------------------------------------------------------------------
\* Properties of query_with_rag
\* ------------------------------------------------------------------------
\* the number of requests of the kind x issued so far
Count(x) == Cardinality({i \in 1..Len(calls) : calls[i] = x})

\* the loop of find_similar_documents is over, the list sorted and cut
RetrievalComplete ==
    /\ Len(similarities) = Len(Zip(documents, document_embeddings))
    /\ similarities = SortDesc(similarities)
    /\ result = SliceTo(similarities, top_k)

\* C11: the steps of query_with_rag happen in strict order: the embedding
\* request has completed before any similarity is computed, the retrieval
\* has completed before the context is built, and the chat completion is
\* requested only after the context has been built from the retrieved
\* candidates.
C11_StepOrder ==
    /\ (similarities # <<>> \/ pc = "loop") =>
          /\ calls # <<>>
          /\ calls[1] = "embeddings"
          /\ query_embedding \in Vectors
    /\ (pc = "generate" \/ context # <<>>) =>
          /\ RetrievalComplete
          /\ context = BuildContext(result)
          /\ calls[1] = "embeddings"
    /\ Count("chat") > 0 =>
          /\ calls = <<"embeddings", "chat">>
          /\ RetrievalComplete
          /\ context = BuildContext(result)

\* a call of query_with_rag has gone through all its steps, with a context
\* of two candidates
C11_Witness ==
    /\ op = "rag" /\ pc = "done"
    /\ calls = <<"embeddings", "chat">>
    /\ Len(result) >= 2
    /\ context = BuildContext(result)
    /\ answer \in Answers

\* C12: a failure of a step ends the call with the error of that step and
\* without an answer: after a failed embedding request no similarity is
\* computed and no chat completion requested; after a dimension mismatch no
\* chat completion is requested; after a failed chat completion the error is
\* raised and nothing is returned.
C12_FailureAborts ==
    /\ error # "none" => (pc = "failed" /\ answer = <<>>)
    /\ pc = "failed" => error \in {"RequestException", "ValueError"}
    /\ answer # <<>> => (pc = "done" /\ error = "none" /\ answer \in Answers)
    /\ (pc = "failed" /\ query_embedding = <<>>) =>
          /\ error = "RequestException"
          /\ similarities = <<>>
          /\ result = <<>>
          /\ calls = <<"embeddings">>
    /\ error = "ValueError" =>
          /\ calls = <<"embeddings">>
          /\ result = <<>>
          /\ context = <<>>
    /\ (pc = "failed" /\ Count("chat") > 0) =>
          /\ error = "RequestException"
          /\ calls = <<"embeddings", "chat">>

\* the chat completion failed after a retrieval that gave two candidates
C12_Witness ==
    /\ op = "rag" /\ pc = "failed"
    /\ error = "RequestException"
    /\ calls = <<"embeddings", "chat">>
    /\ Len(result) >= 2
    /\ context # <<>>
    /\ answer = <<>>

\* C13: a call of query_with_rag issues at most one embedding request and at
\* most one chat completion request; a successful call issues exactly one of
\* each, also for k = 0 or no document, when the context is empty; a failed
\* request is not issued again.
C13_NoRetry ==
    /\ Count("embeddings") <= 1
    /\ Count("chat") <= 1
    /\ pc = "done" => calls = <<"embeddings", "chat">>
    /\ (pc = "done" /\ top_k >= 0
          /\ (top_k = 0 \/ documents = <<>> \/ document_embeddings = <<>>)) =>
          context = <<>>
    /\ pc = "failed" =>
          calls \in {<<"embeddings">>, <<"embeddings", "chat">>}

\* a call with documents and k = 0 has succeeded, with an empty context
C13_Witness ==
    /\ op = "rag" /\ pc = "done"
    /\ top_k = 0
    /\ Len(documents) >= 2 /\ Aligned
    /\ context = <<>>
    /\ calls = <<"embeddings", "chat">>
    /\ answer \in Answers

\* ------------------------------------------------------------------------
\* One call after another on the same lists (lines 188 and 196)
\* ------------------------------------------------------------------------
\* the call is over; the function is called again with the same documents,
\* vectors and top_k: its locals are new (similarities = [] at line 81)
CallAgain ==
    /\ pc \in {"done", "failed"}
    /\ pc' = "embed"
    /\ query_embedding' = <<>>
    /\ similarities' = <<>>
    /\ result' = <<>>
    /\ context' = <<>>
    /\ answer' = <<>>
    /\ error' = "none"
    /\ calls' = <<>>
    /\ UNCHANGED <<clientvars, args, simvars>>

AgainNext == RagNext \/ CallAgain

AgainSpec == RagInit /\ [][AgainNext]_vars

\* C14: no step of find_similar_documents or query_with_rag changes the
\* documents or the document vectors, whether the call returns or fails (the
\* sort works on a list built in the call), and a call starts from nothing
\* of the call before it.
C14_InputsUnchanged ==
    [][ /\ documents' = documents
        /\ document_embeddings' = document_embeddings
        /\ top_k' = top_k
        /\ pc \in {"done", "failed"} =>
              /\ pc' = "embed"
              /\ query_embedding' = <<>>
              /\ similarities' = <<>>
              /\ result' = <<>>
              /\ context' = <<>>
              /\ answer' = <<>>
              /\ error' = "none" ]_vars

\* a call has returned the last of three documents first; the documents are
\* in the order they were passed in
C14_Witness ==
    /\ op = "rag" /\ pc = "done"
    /\ documents = [i \in 1..3 |-> Doc(i)]
    /\ Len(similarities) = 3
    /\ similarities[1][1] = Doc(3)
    /\ result[1][1] = Doc(3)

\* ------------------------------------------------------------------------
\* python-examples.py: make_request, login, get_current_user
\* ------------------------------------------------------------------------
\* the requests one run of the script may issue
MaxRequests == 3

\* the values of JWT_TOKEN: the environment's, or the "token" of a login
\* response, "" when there is none
Tokens == {"", "a", "b"}

\* a dict of headers with the keys K
NoHeaders == <<>>

\* the headers a caller passes to make_request: none, a correlation id
\* (line 324), an Authorization of its own
CallerHeaders ==
    { NoHeaders,
      [k \in {"X-Correlation-ID"} |-> "c"],
      [k \in {"Authorization"} |-> "Basic x"] }

Methods == {"GET", "POST", "PUT", "DELETE", "PATCH"}

\* d.update(e)
DictUpdate(d, e) ==
    [k \in (DOMAIN d) \union (DOMAIN e) |-> IF k \in DOMAIN e THEN e[k] ELSE d[k]]

\* a slip: the caller's headers are merged in after the Authorization is set
BuildHeadersCallerLast(headers, token) ==
    LET default_headers ==
            [k \in {"Content-Type", "X-API-Key"} |->
                IF k = "Content-Type" THEN "application/json" ELSE "key"]
        with_token ==
            IF token # ""
            THEN DictUpdate(default_headers,
                            [k \in {"Authorization"} |-> "Bearer " \o token])
            ELSE default_headers
    IN  IF headers # NoHeaders THEN DictUpdate(with_token, headers) ELSE with_token

\* lines 21-29: the headers of the request
BuildHeaders(headers, token) ==
    LET default_headers ==
            [k \in {"Content-Type", "X-API-Key"} |->
                IF k = "Content-Type" THEN "application/json" ELSE "key"]
        merged ==
            IF headers # NoHeaders THEN DictUpdate(default_headers, headers)
            ELSE default_headers
    IN  IF token # ""
        THEN DictUpdate(merged, [k \in {"Authorization"} |-> "Bearer " \o token])
        ELSE merged

\* lines 31-40: the methods make_request sends a request for
Supported(method) == method \in {"GET", "POST", "PUT", "DELETE"}

\* lines 20-38: make_request issues its request
Send(method, endpoint, headers) ==
    /\ nsent < MaxRequests
    /\ nsent' = nsent + 1
    /\ last_sent' = [method |-> method, endpoint |-> endpoint,
                     headers |-> BuildHeaders(headers, JWT_TOKEN)]

ragvars == <<op, pc, documents, document_embeddings, top_k, query_embedding,
             similarities, result, context, answer, error, calls>>

ClientInit ==
    /\ op = "client"
    /\ pc = "client"
    /\ documents = <<>>
    /\ document_embeddings = <<>>
    /\ top_k = 0
    /\ query_embedding = <<>>
    /\ similarities = <<>>
    /\ result = <<>>
    /\ context = <<>>
    /\ answer = <<>>
    /\ error = "none"
    /\ calls = <<>>
    /\ vec_a = <<>>
    /\ vec_b = <<>>
    /\ sim_ab = NotCalled
    /\ sim_ba = NotCalled
    /\ JWT_TOKEN \in Tokens
    /\ nsent = 0
    /\ last_sent = NoRequest
    /\ last_call = NoCall

\* lines 17-46, make_request called by one of the other functions of the
\* script: the request is answered, or raise_for_status raises
MakeRequest ==
    /\ \E method \in Methods, headers \in CallerHeaders, outcome \in {"ok", "HTTPError"} :
          IF Supported(method)
          THEN /\ Send(method, "/api/metrics", headers)
               /\ last_call' = [fn |-> "make_request", headers |-> headers,
                                outcome |-> outcome]
          ELSE /\ last_call' = [fn |-> "make_request", headers |-> headers,
                                outcome |-> "ValueError"]
               /\ UNCHANGED <<nsent, last_sent>>
    /\ UNCHANGED <<JWT_TOKEN, ragvars, simvars>>

\* lines 66-76, login: the request is answered and JWT_TOKEN set to the
\* "token" of the response, "" when it has none
LoginOk ==
    /\ Send("POST", "/api/auth/login", NoHeaders)
    /\ \E token \in Tokens : JWT_TOKEN' = token
    /\ last_call' = [fn |-> "login", headers |-> NoHeaders, outcome |-> "ok"]
    /\ UNCHANGED <<ragvars, simvars>>

\* lines 66-72, login: make_request raises, line 74 is not reached
LoginFail ==
    /\ Send("POST", "/api/auth/login", NoHeaders)
    /\ last_call' = [fn |-> "login", headers |-> NoHeaders, outcome |-> "HTTPError"]
    /\ UNCHANGED <<JWT_TOKEN, ragvars, simvars>>

\* lines 78-84, get_current_user
GetCurrentUser ==
    /\ IF JWT_TOKEN = ""
       THEN /\ last_call' = [fn |-> "get_current_user", headers |-> NoHeaders,
                             outcome |-> "skipped"]
            /\ UNCHANGED <<nsent, last_sent>>
       ELSE /\ Send("GET", "/api/auth/me", NoHeaders)
            /\ \E outcome \in {"ok", "HTTPError"} :
                  last_call' = [fn |-> "get_current_user", headers |-> NoHeaders,
                                outcome |-> outcome]
    /\ UNCHANGED <<JWT_TOKEN, ragvars, simvars>>

ClientNext == MakeRequest \/ LoginOk \/ LoginFail \/ GetCurrentUser

ClientSpec == ClientInit /\ [][ClientNext]_vars

\* C15: over any sequence of login, get_current_user and make_request calls,
\* get_current_user issues no request while JWT_TOKEN is empty; JWT_TOKEN
\* changes only in a login whose request succeeded, and a failed login leaves
\* it as it was; and while JWT_TOKEN is not empty every request issued
\* carries "Authorization: Bearer <JWT_TOKEN>", whatever Authorization the
\* caller passed.
C15_TokenDiscipline ==
    [][ /\ (last_call'.fn = "get_current_user" /\ JWT_TOKEN = "") =>
              (nsent' = nsent /\ last_sent' = last_sent)
        /\ JWT_TOKEN' # JWT_TOKEN =>
              (last_call'.fn = "login" /\ last_call'.outcome = "ok")
        /\ (last_call'.fn = "login" /\ last_call'.outcome # "ok") =>
              JWT_TOKEN' = JWT_TOKEN
        /\ (nsent' # nsent /\ JWT_TOKEN # "") =>
              /\ "Authorization" \in DOMAIN last_sent'.headers
              /\ last_sent'.headers["Authorization"] = "Bearer " \o JWT_TOKEN ]_vars

\* after a login, a request whose caller passed an Authorization of its own
\* went out with the token's
C15_Witness ==
    /\ JWT_TOKEN = "b"
    /\ nsent >= 2
    /\ last_call.fn = "make_request"
    /\ last_call.headers = [k \in {"Authorization"} |-> "Basic x"]
    /\ last_sent.headers["Authorization"] = "Bearer b"
    /\ last_sent.headers["X-API-Key"] = "key"

====
